---- MODULE Spec2Model ----
(***************************************************************************)
(* Streaming and batch ingestion of 5G KPM logs (src/app.py) together with *)
(* the log writer (src/simulate_realtime.py).                              *)
(*                                                                         *)
(* A log text is a sequence of characters.  Only the structure that the    *)
(* code and the line grammar depend on is kept, so one character of the    *)
(* model stands for a run of bytes of the file:                            *)
(*   "h"  the header lines written when the file is created                *)
(*   "w"  the whitespace that starts an entry ("\n      ")                 *)
(*   "a"  the first part of the anchor line  "<id> KPM ind_"               *)
(*   "b"  the rest of the anchor line  "msg latency = <n> [us]\n"          *)
(*   "m"  the metric lines of the block                                    *)
(* Field v of a character stands for the values written (it names the      *)
(* file they were written to, so records of different files differ).       *)
(***************************************************************************)
EXTENDS Integers, Sequences, FiniteSets, TLC

\* ---------------------------------------------------------------- bounds
MaxEntries == 2     \* entries one run of the simulator appends (--entries)
MinId == 5          \* smallest id of a batch handed to the merge step
MaxId == 7          \* largest id of a batch handed to the merge step

\* ------------------------------------------------------------- constants
Paths == {"A", "B"}
NoPath == ""
None == <<>>                 \* Python None / falsy content, see read_new_data
NoRead == -1                 \* no seek was done by the last script run
Failures == {"nonzero", "empty", "timeout", "unparseable", "tmpfail",
             "writefail"}
Outcomes == {"ok"} \cup Failures
IOs == {"ok", "error"}

VARIABLES
    exists,              \* exists[p]: os.path.exists(p)
    file,                \* file[p]: the text of file p
    sim_pc,              \* sim_pc[p]: position of the simulator writing p
    entry_id,            \* entry_id[p]: entry_id of that simulator
    log_file_path,       \* the text_input widget
    monitoring_enabled,  \* the checkbox widget
    rt_data,             \* st.session_state.rt_data
    rt_last_update,      \* st.session_state.rt_last_update is not None
    last_position,       \* rt_processor.last_position left by the last run
    read_start,          \* offset f.seek() was given in the last run
    new_content,         \* what read_new_data returned in the last run
    existing_df,         \* existing_df argument of the last merge call
    new_df,              \* rows parsed from the engine's output in that call
    outcome,             \* how the extraction engine ended in that call
    raised,              \* the last script run ended in an uncaught exception
    st_errors,           \* the functions that called st.error in the last run
    tmp_created,         \* the last merge call created its temporary file
    tmp_exists,          \* that temporary file exists after the call
    processed_data,      \* st.session_state.processed_data
    uploaded_files,      \* the file_uploader widget
    batch_results,       \* what process_file returned in the last batch run
    sidebar_errors,      \* names the sidebar flagged as failed in that run
    op                   \* the operation that produced this state

vars == <<exists, file, sim_pc, entry_id, log_file_path, monitoring_enabled,
          rt_data, rt_last_update, last_position, read_start, new_content,
          existing_df, new_df, outcome, raised, st_errors, tmp_created,
          tmp_exists, processed_data, uploaded_files, batch_results,
          sidebar_errors, op>>

fsVars == <<exists, file, sim_pc, entry_id>>
uiVars == <<log_file_path, monitoring_enabled, rt_data, rt_last_update,
            last_position, read_start, new_content, existing_df, new_df,
            outcome, raised, st_errors, tmp_created, tmp_exists>>
batchVars == <<processed_data, uploaded_files, batch_results, sidebar_errors>>

\* ------------------------------------------------------------ log text
Header(v) == << [k |-> "h", id |-> 0, v |-> v] >>

generate_log_entry(id, v) ==
    << [k |-> "w", id |-> id, v |-> v],
       [k |-> "a", id |-> id, v |-> v],
       [k |-> "b", id |-> id, v |-> v],
       [k |-> "m", id |-> id, v |-> v] >>

\* str.strip() leaves something
NonBlank(text) == \E i \in 1..Len(text) : text[i].k # "w"

\* ------------------------------------------------------- extraction engine
\* A block is anchored by a complete anchor line; one row per block.
IsAnchor(text, i) ==
    /\ text[i].k = "a"
    /\ i + 1 <= Len(text)
    /\ text[i + 1].k = "b"
    /\ text[i + 1].id = text[i].id

Row(text, i) ==
    [id |-> text[i].id, v |-> text[i].v,
     full |-> (i + 2 <= Len(text) /\ text[i + 2].k = "m")]

RECURSIVE ExtractFrom(_, _)
ExtractFrom(text, i) ==
    IF i > Len(text) THEN <<>>
    ELSE IF IsAnchor(text, i) THEN <<Row(text, i)>> \o ExtractFrom(text, i + 1)
    ELSE ExtractFrom(text, i + 1)

Extract(text) == ExtractFrom(text, 1)

\* ---------------------------------------------------------------- helpers
Ids(df) == {df[i].id : i \in DOMAIN df}
MaxOf(S) == CHOOSE x \in S : \A y \in S : y <= x
Count(df, id) == Cardinality({i \in DOMAIN df : df[i].id = id})

\* ------------------------------------------------ RealTimeMetricsProcessor
RealTimeMetricsProcessor == 0      \* __init__: self.last_position = 0

reset_position_stale == last_position

reset_position == 0

read_new_data_rewind(pos, file_path, io) ==
    IF ~exists[file_path]
    THEN [content |-> None, last_position |-> pos, seek |-> NoRead,
          st_error |-> FALSE]
    ELSE IF io = "error"
    THEN [content |-> None, last_position |-> 0, seek |-> NoRead,
          st_error |-> TRUE]
    ELSE LET text == file[file_path]
             new == IF pos >= Len(text) THEN <<>>
                    ELSE SubSeq(text, pos + 1, Len(text))
         IN [content |-> IF NonBlank(new) THEN new ELSE None,
             last_position |-> Len(text), seek |-> pos, st_error |-> FALSE]

\* read_new_data(file_path) on a processor whose last_position is pos.
\* None stands for the returned None; a returned string is never blank.
read_new_data(pos, file_path, io) ==
    IF ~exists[file_path]
    THEN [content |-> None, last_position |-> pos, seek |-> NoRead,
          st_error |-> FALSE]
    ELSE IF io = "error"
    THEN [content |-> None, last_position |-> pos, seek |-> NoRead,
          st_error |-> TRUE]
    ELSE LET text == file[file_path]
             new == IF pos >= Len(text) THEN <<>>
                    ELSE SubSeq(text, pos + 1, Len(text))
             tell == IF pos >= Len(text) THEN pos ELSE Len(text)
         IN [content |-> IF NonBlank(new) THEN new ELSE None,
             last_position |-> tell, seek |-> pos, st_error |-> FALSE]

\* variants of the merge used to test the claims' formulas
Merge_ge(existing, rows) ==
    IF existing # <<>>
    THEN LET max_id == MaxOf(Ids(existing))
             kept == SelectSeq(rows, LAMBDA r : r.id >= max_id)
         IN IF kept # <<>> THEN existing \o kept ELSE existing
    ELSE rows

Merge_first(existing, rows) ==
    IF existing # <<>>
    THEN LET max_id == existing[1].id
             kept == SelectSeq(rows, LAMBDA r : r.id > max_id)
         IN IF kept # <<>> THEN existing \o kept ELSE existing
    ELSE rows

Merge_nofilter(existing, rows) ==
    IF existing # <<>>
    THEN IF rows # <<>> THEN existing \o rows ELSE existing
    ELSE rows

Merge_replace(existing, rows) ==
    IF rows # <<>> THEN rows ELSE existing

Merge_prepend(existing, rows) ==
    IF existing # <<>>
    THEN LET max_id == MaxOf(Ids(existing))
             kept == SelectSeq(rows, LAMBDA r : r.id > max_id)
         IN IF kept # <<>> THEN kept \o existing ELSE existing
    ELSE rows

\* lines 217-228: the merge of the parsed rows into existing_df
Merge(existing, rows) ==
    IF existing # <<>>
    THEN LET max_id == MaxOf(Ids(existing))
             kept == SelectSeq(rows, LAMBDA r : r.id > max_id)
         IN IF kept # <<>> THEN existing \o kept ELSE existing
    ELSE rows

process_incremental_data_fresh(content, existing, out) ==
    IF out = "ok"
    THEN [df |-> Extract(content),
          new_df |-> Extract(content), st_error |-> FALSE, raised |-> FALSE,
          tmp_created |-> TRUE, tmp_exists |-> FALSE]
    ELSE [df |-> existing, new_df |-> <<>>, st_error |-> (out \notin {"nonzero", "empty"}),
          raised |-> FALSE, tmp_created |-> (out # "tmpfail"),
          tmp_exists |-> (out = "writefail")]

process_incremental_data_drop(content, existing, out) ==
    IF out = "ok"
    THEN [df |-> Merge(existing, Extract(content)),
          new_df |-> Extract(content), st_error |-> FALSE, raised |-> FALSE,
          tmp_created |-> TRUE, tmp_exists |-> FALSE]
    ELSE [df |-> <<>>, new_df |-> <<>>, st_error |-> TRUE, raised |-> FALSE,
          tmp_created |-> TRUE, tmp_exists |-> FALSE]

\* lines 196-243.  out tells how the call goes:
\*   "tmpfail"    NamedTemporaryFile raises, no file is created (198)
\*   "writefail"  the file is created and temp_file.write raises (199)
\*   "nonzero", "empty"  the test of line 212 fails, lines 231-232
\*   "timeout", "unparseable"  subprocess.run or read_csv raise, 234-236
process_incremental_data(content, existing, out) ==
    IF out = "ok"
    THEN [df |-> Merge(existing, Extract(content)),
          new_df |-> Extract(content), st_error |-> FALSE, raised |-> FALSE,
          tmp_created |-> TRUE, tmp_exists |-> FALSE]
    ELSE IF out \in {"nonzero", "empty"}
    THEN [df |-> existing, new_df |-> <<>>, st_error |-> FALSE,
          raised |-> FALSE, tmp_created |-> TRUE, tmp_exists |-> FALSE]
    ELSE IF out = "tmpfail"
    THEN [df |-> existing, new_df |-> <<>>, st_error |-> TRUE,
          raised |-> FALSE, tmp_created |-> FALSE, tmp_exists |-> FALSE]
    ELSE IF out = "writefail"
    THEN [df |-> existing, new_df |-> <<>>, st_error |-> TRUE,
          raised |-> FALSE, tmp_created |-> TRUE, tmp_exists |-> TRUE]
    ELSE [df |-> existing, new_df |-> <<>>, st_error |-> TRUE,
          raised |-> FALSE, tmp_created |-> TRUE, tmp_exists |-> FALSE]

\* ------------------------------------------------- NetworkMetricsProcessor
Tag(rows, filename) ==
    [i \in DOMAIN rows |->
        [id |-> rows[i].id, v |-> rows[i].v, full |-> rows[i].full,
         source_file |-> filename]]

process_file_partial(file_content, filename, out) ==
    IF out = "ok"
    THEN [ok |-> TRUE,
          df |-> [i \in DOMAIN Extract(file_content) |->
                    [id |-> Extract(file_content)[i].id,
                     v |-> Extract(file_content)[i].v,
                     full |-> Extract(file_content)[i].full,
                     source_file |-> IF i = 1 THEN filename ELSE NoPath]],
          st_error |-> NoPath, raised |-> FALSE,
          tmp_created |-> TRUE, tmp_exists |-> FALSE]
    ELSE [ok |-> FALSE, df |-> <<>>, st_error |-> filename,
          raised |-> FALSE,
          tmp_created |-> (out # "tmpfail"),
          tmp_exists |-> (out = "writefail")]

\* lines 266-311; out as for process_incremental_data.  ok tells a
\* DataFrame was returned, st_error is the file name the st.error message
\* holds (every message of lines 295-310 holds filename).
process_file(file_content, filename, out) ==
    IF out = "ok"
    THEN [ok |-> TRUE, df |-> Tag(Extract(file_content), filename),
          st_error |-> NoPath, raised |-> FALSE,
          tmp_created |-> TRUE, tmp_exists |-> FALSE]
    ELSE [ok |-> FALSE, df |-> <<>>, st_error |-> filename,
          raised |-> FALSE,
          tmp_created |-> (out # "tmpfail"),
          tmp_exists |-> (out = "writefail")]

\* ------------------------------------------- simulate_realtime.py: main
\* lines 81-91: the header is written only when the file does not exist
SimStart(p) ==
    /\ sim_pc[p] = "start"
    /\ exists' = [exists EXCEPT ![p] = TRUE]
    /\ file' = [file EXCEPT ![p] = IF exists[p] THEN @ ELSE Header(p)]
    /\ entry_id' = [entry_id EXCEPT ![p] = 1]
    /\ sim_pc' = [sim_pc EXCEPT ![p] = "loop"]
    /\ op' = "SimStart"
    /\ UNCHANGED uiVars
    /\ UNCHANGED batchVars

\* lines 93-103: one entry is appended by one write
SimAppend(p) ==
    /\ sim_pc[p] = "loop"
    /\ entry_id[p] <= MaxEntries
    /\ file' = [file EXCEPT ![p] = @ \o generate_log_entry(entry_id[p], p)]
    /\ entry_id' = [entry_id EXCEPT ![p] = @ + 1]
    /\ op' = "SimAppend"
    /\ UNCHANGED <<exists, sim_pc>>
    /\ UNCHANGED uiVars
    /\ UNCHANGED batchVars

\* --------------------------------------------------- app.py: real_time_tab
\* One run of the script with the widgets at (path, mon); reset tells that
\* the Reset Data button was clicked; io and out are how the file read and
\* the extraction engine end in this run.
real_time_tab(path, mon, reset, io, out) ==
    LET data0 == IF reset THEN <<>> ELSE rt_data
        upd0 == IF reset THEN FALSE ELSE rt_last_update
        pos0 == IF reset THEN reset_position ELSE RealTimeMetricsProcessor
    IN  /\ log_file_path' = path
        /\ monitoring_enabled' = mon
        /\ raised' = FALSE
        /\ IF mon /\ path # NoPath
           THEN LET rd == read_new_data(pos0, path, io)
                IN  /\ last_position' = rd.last_position
                    /\ read_start' = rd.seek
                    /\ new_content' = rd.content
                    /\ IF rd.content # None
                       THEN LET res == process_incremental_data(
                                           rd.content, data0, out)
                            IN  /\ rt_data' = res.df
                                /\ rt_last_update' = TRUE
                                /\ existing_df' = data0
                                /\ new_df' = res.new_df
                                /\ outcome' = out
                                /\ st_errors' =
                                      IF res.st_error
                                      THEN {"process_incremental_data"}
                                      ELSE {}
                                /\ tmp_created' = res.tmp_created
                                /\ tmp_exists' = res.tmp_exists
                       ELSE /\ rt_data' = data0
                            /\ rt_last_update' = upd0
                            /\ existing_df' = <<>>
                            /\ new_df' = <<>>
                            /\ outcome' = "none"
                            /\ st_errors' = IF rd.st_error
                                            THEN {"read_new_data"} ELSE {}
                            /\ tmp_created' = FALSE
                            /\ tmp_exists' = FALSE
           ELSE /\ last_position' = pos0
                /\ read_start' = NoRead
                /\ new_content' = None
                /\ rt_data' = data0
                /\ rt_last_update' = upd0
                /\ existing_df' = <<>>
                /\ new_df' = <<>>
                /\ outcome' = "none"
                /\ st_errors' = {}
                /\ tmp_created' = FALSE
                /\ tmp_exists' = FALSE

\* line 565: st.rerun() after the sleep, widgets unchanged
Rerun ==
    /\ monitoring_enabled
    /\ log_file_path # NoPath
    /\ \E io \in IOs, out \in Outcomes :
          real_time_tab(log_file_path, TRUE, FALSE, io, out)
    /\ op' = "Rerun"
    /\ UNCHANGED fsVars
    /\ UNCHANGED batchVars

\* lines 497-501: the operator types another path
SetLogFilePath ==
    /\ \E p \in Paths \cup {NoPath}, io \in IOs, out \in Outcomes :
          /\ p # log_file_path
          /\ real_time_tab(p, monitoring_enabled, FALSE, io, out)
    /\ op' = "SetLogFilePath"
    /\ UNCHANGED fsVars
    /\ UNCHANGED batchVars

\* line 511: the operator ticks or unticks Enable Monitoring
ToggleMonitoring ==
    /\ \E io \in IOs, out \in Outcomes :
          real_time_tab(log_file_path, ~monitoring_enabled, FALSE, io, out)
    /\ op' = "ToggleMonitoring"
    /\ UNCHANGED fsVars
    /\ UNCHANGED batchVars

\* lines 524-528: the operator clicks Reset Data (disabled without a path)
ResetData ==
    /\ log_file_path # NoPath
    /\ \E io \in IOs, out \in Outcomes :
          real_time_tab(log_file_path, monitoring_enabled, TRUE, io, out)
    /\ op' = "ResetData"
    /\ UNCHANGED fsVars
    /\ UNCHANGED batchVars

Init ==
    /\ exists = [p \in Paths |-> FALSE]
    /\ file = [p \in Paths |-> <<>>]
    /\ sim_pc = [p \in Paths |-> "start"]
    /\ entry_id = [p \in Paths |-> 0]
    /\ log_file_path = NoPath
    /\ monitoring_enabled = FALSE
    /\ rt_data = <<>>
    /\ rt_last_update = FALSE
    /\ last_position = RealTimeMetricsProcessor
    /\ read_start = NoRead
    /\ new_content = None
    /\ existing_df = <<>>
    /\ new_df = <<>>
    /\ outcome = "none"
    /\ raised = FALSE
    /\ st_errors = {}
    /\ tmp_created = FALSE
    /\ tmp_exists = FALSE
    /\ processed_data = <<>>
    /\ uploaded_files = <<>>
    /\ batch_results = <<>>
    /\ sidebar_errors = {}
    /\ op = "init"

Next ==
    \/ \E p \in Paths : SimStart(p)
    \/ \E p \in Paths : SimAppend(p)
    \/ Rerun
    \/ SetLogFilePath
    \/ ToggleMonitoring
    \/ ResetData

Spec == Init /\ [][Next]_vars

\* ------------------------------------------------ merge calls on their own
\* the text of the entries whose ids are in S, by increasing id
RECURSIVE ChunkFrom(_, _, _)
ChunkFrom(S, v, i) ==
    IF i > MaxId THEN <<>>
    ELSE (IF i \in S THEN generate_log_entry(i, v) ELSE <<>>)
         \o ChunkFrom(S, v, i + 1)

ChunkOf(S, v) == ChunkFrom(S, v, 1)

BatchIds == MinId..MaxId

\* process_incremental_data(new_content, rt_data) for any chunk of a source
\* whose ids increase
MergeCall ==
    /\ \E S \in SUBSET BatchIds, v \in Paths, out \in Outcomes :
          LET content == ChunkOf(S, v)
              res == process_incremental_data(content, rt_data, out)
          IN  /\ new_content' = content
              /\ existing_df' = rt_data
              /\ new_df' = res.new_df
              /\ outcome' = out
              /\ raised' = res.raised
              /\ rt_data' = res.df
              /\ st_errors' = IF res.st_error
                              THEN {"process_incremental_data"} ELSE {}
              /\ tmp_created' = res.tmp_created
              /\ tmp_exists' = res.tmp_exists
    /\ op' = "MergeCall"
    /\ UNCHANGED fsVars
    /\ UNCHANGED batchVars
    /\ UNCHANGED <<log_file_path, monitoring_enabled, rt_last_update,
                   last_position, read_start>>

MergeSpec == Init /\ [][MergeCall]_vars

\* ------------------------------------- one processor fed a growing file
\* the log one run of the simulator writes to a new file
FullLog == Header("A") \o ChunkOf(1..MaxEntries, "A")

\* the file has grown by some bytes (a write need not end at a line end)
ChunkWrite ==
    /\ Len(file["A"]) < Len(FullLog)
    /\ exists' = [exists EXCEPT !["A"] = TRUE]
    /\ file' = [file EXCEPT !["A"] = SubSeq(FullLog, 1, Len(@) + 1)]
    /\ op' = "ChunkWrite"
    /\ UNCHANGED <<sim_pc, entry_id>>
    /\ UNCHANGED uiVars
    /\ UNCHANGED batchVars

\* read_new_data then process_incremental_data on the same processor, as in
\* lines 548-554, the extraction engine succeeding
ChunkPoll ==
    /\ exists["A"]
    /\ LET rd == read_new_data(last_position, "A", "ok")
       IN  /\ last_position' = rd.last_position
           /\ read_start' = rd.seek
           /\ new_content' = rd.content
           /\ IF rd.content # None
              THEN LET res == process_incremental_data(rd.content, rt_data, "ok")
                   IN  /\ rt_data' = res.df
                       /\ rt_last_update' = TRUE
                       /\ existing_df' = rt_data
                       /\ new_df' = res.new_df
                       /\ outcome' = "ok"
              ELSE /\ existing_df' = <<>>
                   /\ new_df' = <<>>
                   /\ outcome' = "none"
                   /\ UNCHANGED <<rt_data, rt_last_update>>
    /\ op' = "ChunkPoll"
    /\ UNCHANGED fsVars
    /\ UNCHANGED batchVars
    /\ UNCHANGED <<log_file_path, monitoring_enabled, raised, st_errors,
                   tmp_created, tmp_exists>>

ChunkNext == ChunkWrite \/ ChunkPoll

ChunkSpec == Init /\ [][ChunkNext]_vars

\* ------------------------------------------- monitoring of one file kept on
\* the operator has typed the path of file A and ticked Enable Monitoring
LiveInit ==
    /\ exists = [p \in Paths |-> FALSE]
    /\ file = [p \in Paths |-> <<>>]
    /\ sim_pc = [p \in Paths |-> "start"]
    /\ entry_id = [p \in Paths |-> 0]
    /\ log_file_path = "A"
    /\ monitoring_enabled = TRUE
    /\ rt_data = <<>>
    /\ rt_last_update = FALSE
    /\ last_position = RealTimeMetricsProcessor
    /\ read_start = NoRead
    /\ new_content = None
    /\ existing_df = <<>>
    /\ new_df = <<>>
    /\ outcome = "none"
    /\ raised = FALSE
    /\ st_errors = {}
    /\ tmp_created = FALSE
    /\ tmp_exists = FALSE
    /\ processed_data = <<>>
    /\ uploaded_files = <<>>
    /\ batch_results = <<>>
    /\ sidebar_errors = {}
    /\ op = "SetLogFilePath"

LiveNext ==
    \/ SimStart("A")
    \/ SimAppend("A")
    \/ Rerun
    \/ ResetData

\* a poll whose read and extraction succeed
RerunOk ==
    /\ monitoring_enabled
    /\ log_file_path # NoPath
    /\ real_time_tab(log_file_path, TRUE, FALSE, "ok", "ok")
    /\ op' = "Rerun"
    /\ UNCHANGED fsVars
    /\ UNCHANGED batchVars

\* lines 564-565 fire the next poll for as long as monitoring is on; the
\* extraction engine succeeds again and again
LiveSpec == LiveInit /\ [][LiveNext]_vars /\ WF_vars(RerunOk)

\* ----------------------------------------------- app.py: non_real_time_tab
\* the state the loop of lines 667-679 works on
BatchStart == [data |-> processed_data, results |-> <<>>, failed |-> {}]

\* one pass of the loop body for file f, the engine ending as out
BatchStep(acc, f, out) ==
    IF f.name \in DOMAIN acc.data
    THEN acc
    ELSE LET r == process_file(f.content, f.name, out)
             res == [name |-> f.name, ok |-> r.ok, df |-> r.df,
                     st_error |-> r.st_error, raised |-> r.raised,
                     tmp_created |-> r.tmp_created,
                     tmp_exists |-> r.tmp_exists]
         IN IF r.ok /\ r.df # <<>>
            THEN [data |-> acc.data @@ (f.name :> r.df),
                  results |-> Append(acc.results, res),
                  failed |-> acc.failed]
            ELSE [data |-> acc.data,
                  results |-> Append(acc.results, res),
                  failed |-> acc.failed \cup {f.name}]

\* a loop that gives up at the first file that fails
RECURSIVE BatchLoop_stop(_, _, _, _)
BatchLoop_stop(acc, files, outs, i) ==
    IF i > Len(files) \/ acc.failed # {} THEN acc
    ELSE BatchLoop_stop(BatchStep(acc, files[i], outs[i]), files, outs, i + 1)

\* lines 667-679: for uploaded_file in uploaded_files
RECURSIVE BatchLoop(_, _, _, _)
BatchLoop(acc, files, outs, i) ==
    IF i > Len(files) THEN acc
    ELSE BatchLoop(BatchStep(acc, files[i], outs[i]), files, outs, i + 1)

\* the operator uploads log files: a list of distinct files that exist
Uploads ==
    {<<>>}
    \cup {<<[name |-> p, content |-> file[p]]>> : p \in {q \in Paths : exists[q]}}
    \cup {<<[name |-> pq[1], content |-> file[pq[1]]],
            [name |-> pq[2], content |-> file[pq[2]]]>> :
            pq \in {x \in Paths \X Paths :
                      exists[x[1]] /\ exists[x[2]] /\ x[1] # x[2]}}

\* one run of the script that reaches non_real_time_tab (lines 790-794):
\* while monitoring polls, st.rerun() of line 565 ends the run before it
BatchRun ==
    /\ ~(monitoring_enabled /\ log_file_path # NoPath)
    /\ \E files \in Uploads :
          \E outs \in [1..Len(files) -> Outcomes] :
             LET acc == BatchLoop(BatchStart, files, outs, 1)
             IN  /\ uploaded_files' = files
                 /\ processed_data' = acc.data
                 /\ batch_results' = acc.results
                 /\ sidebar_errors' = acc.failed
    /\ op' = "BatchRun"
    /\ UNCHANGED fsVars
    /\ UNCHANGED uiVars

BatchNext ==
    \/ \E p \in Paths : SimStart(p)
    \/ \E p \in Paths : SimAppend(p)
    \/ BatchRun

BatchSpec == Init /\ [][BatchNext]_vars

\* ------------------------------- read_new_data on a file that comes and goes
\* the file may be there, empty, before the writer starts
ReadInit ==
    /\ exists \in [Paths -> BOOLEAN]
    /\ exists["B"] = FALSE
    /\ file = [p \in Paths |-> <<>>]
    /\ sim_pc = [p \in Paths |-> "start"]
    /\ entry_id = [p \in Paths |-> 0]
    /\ log_file_path = "A"
    /\ monitoring_enabled = TRUE
    /\ rt_data = <<>>
    /\ rt_last_update = FALSE
    /\ last_position = RealTimeMetricsProcessor
    /\ read_start = NoRead
    /\ new_content = None
    /\ existing_df = <<>>
    /\ new_df = <<>>
    /\ outcome = "none"
    /\ raised = FALSE
    /\ st_errors = {}
    /\ tmp_created = FALSE
    /\ tmp_exists = FALSE
    /\ processed_data = <<>>
    /\ uploaded_files = <<>>
    /\ batch_results = <<>>
    /\ sidebar_errors = {}
    /\ op = "init"

\* the file is removed (os.path.exists turns false, line 171)
ReadUnlink ==
    /\ exists["A"]
    /\ exists' = [exists EXCEPT !["A"] = FALSE]
    /\ file' = [file EXCEPT !["A"] = <<>>]
    /\ op' = "ReadUnlink"
    /\ UNCHANGED <<sim_pc, entry_id>>
    /\ UNCHANGED uiVars
    /\ UNCHANGED batchVars

\* lines 548-555 on one processor: the read may fail, the engine may fail
ReadTick ==
    /\ \E io \in IOs, out \in Outcomes :
          LET rd == read_new_data(last_position, "A", io)
          IN  /\ last_position' = rd.last_position
              /\ read_start' = rd.seek
              /\ new_content' = rd.content
              /\ IF rd.content # None
                 THEN LET res == process_incremental_data(
                                     rd.content, rt_data, out)
                      IN  /\ rt_data' = res.df
                          /\ rt_last_update' = TRUE
                          /\ existing_df' = rt_data
                          /\ new_df' = res.new_df
                          /\ outcome' = out
                          /\ st_errors' = IF res.st_error
                                          THEN {"process_incremental_data"}
                                          ELSE {}
                          /\ tmp_created' = res.tmp_created
                          /\ tmp_exists' = res.tmp_exists
                 ELSE /\ existing_df' = <<>>
                      /\ new_df' = <<>>
                      /\ outcome' = "none"
                      /\ st_errors' = IF rd.st_error
                                      THEN {"read_new_data"} ELSE {}
                      /\ tmp_created' = FALSE
                      /\ tmp_exists' = FALSE
                      /\ UNCHANGED <<rt_data, rt_last_update>>
    /\ op' = "ReadTick"
    /\ UNCHANGED fsVars
    /\ UNCHANGED batchVars
    /\ UNCHANGED <<log_file_path, monitoring_enabled, raised>>

ReadNext == ChunkWrite \/ ReadUnlink \/ ReadTick

ReadSpec == ReadInit /\ [][ReadNext]_vars

\* ================================================================ claims
\* rows of the part of the monitored file that lies before the cursor
Consumed ==
    IF log_file_path # NoPath /\ read_start # NoRead
    THEN Extract(SubSeq(file[log_file_path], 1, last_position))
    ELSE <<>>

Occurrences(df, r) == Cardinality({i \in DOMAIN df : df[i] = r})

\* the operations that are one run of real_time_tab
RunOps == {"Rerun", "SetLogFilePath", "ToggleMonitoring", "ResetData"}

\* C2: every record that lies in the part of the file the cursor has
\* consumed is in the Dataset exactly once.
C2_ConsumedExactlyOnce ==
    \A i \in DOMAIN Consumed : Occurrences(rt_data, Consumed[i]) = 1

\* C7: a poll starts reading at the offset the previous poll left, and
\* the cursor does not decrease from one poll to the next.
C7_PollStartsWhereLastEnded ==
    [][op' = "Rerun" /\ read_start' # NoRead
         => read_start' = last_position /\ last_position' >= last_position]_vars

\* C8: after a successful poll of a file the Dataset holds every record
\* extracted from that file and no record of another file.
C8_PerFileDataset ==
    outcome = "ok" =>
        /\ \A i \in DOMAIN new_df : Occurrences(rt_data, new_df[i]) = 1
        /\ \A j \in DOMAIN rt_data : rt_data[j].v = log_file_path

\* C9: a tick whose extraction fails does not raise, leaves the Dataset as
\* it was before the tick and the cursor where read_new_data put it (the
\* end of the file), and the next tick is an ordinary poll.
C9_FailedTickKeepsState ==
    [][op' \in RunOps /\ outcome' \in Failures =>
          /\ ~raised'
          /\ rt_data' = (IF op' = "ResetData" THEN <<>> ELSE rt_data)
          /\ last_position' = Len(file[log_file_path'])
          /\ monitoring_enabled' /\ log_file_path' # NoPath]_vars

C9_Witness == outcome \in Failures /\ rt_data # <<>> /\ last_position > 1

\* C10 as stated: after Reset the cursor is 0, the Dataset is empty and the
\* path is idle (monitoring off).
C10_ResetReturnsToIdle ==
    op = "ResetData" =>
        last_position = 0 /\ rt_data = <<>> /\ ~monitoring_enabled

\* C10 amended: Reset leaves the monitoring checkbox as it was; with
\* monitoring off the run ends with cursor 0 and an empty Dataset; with
\* monitoring on the same run polls at once from offset 0 and the Dataset
\* holds only what that poll extracted.
C10_ResetThenPollFromZero ==
    [][op' = "ResetData" =>
          /\ monitoring_enabled' = monitoring_enabled
          /\ log_file_path' = log_file_path
          /\ ~monitoring_enabled' => last_position' = 0 /\ rt_data' = <<>>
          /\ monitoring_enabled' =>
                /\ read_start' \in {0, NoRead}
                /\ rt_data' = (IF outcome' = "ok"
                               THEN Extract(file[log_file_path]) ELSE <<>>)]_vars

C10_Witness ==
    /\ op = "ResetData" /\ monitoring_enabled /\ outcome = "ok"
    /\ Len(rt_data) = MaxEntries /\ existing_df = <<>> /\ read_start = 0

\* C4: the ids of the Dataset are unique after every merge, and the
\* records the Dataset held before a merge are still there, unchanged.
C4_UniqueIdsNeverOverwritten ==
    [][/\ \A i, j \in DOMAIN rt_data' :
             rt_data'[i].id = rt_data'[j].id => i = j
       /\ \A i \in DOMAIN rt_data :
             i \in DOMAIN rt_data' /\ rt_data'[i] = rt_data[i]]_vars

C4_Witness ==
    /\ op = "MergeCall" /\ outcome = "ok" /\ existing_df # <<>>
    /\ \E i \in DOMAIN new_df :
          /\ new_df[i].id \in Ids(existing_df)
          /\ \E j \in DOMAIN existing_df :
                existing_df[j].id = new_df[i].id /\ existing_df[j] # new_df[i]
    /\ Len(rt_data) > Len(existing_df)

\* the merge as section 4.3 describes it
RefMerge(existing, batch) ==
    IF existing = <<>> THEN batch
    ELSE existing \o
         SelectSeq(batch, LAMBDA r :
                      \A i \in DOMAIN existing : r.id > existing[i].id)

RowOf(id, v) == [id |-> id, v |-> v, full |-> TRUE]

\* C5: a merge whose extraction succeeded gives the reference result, and
\* ids [5,6,7] merged into a Dataset with max id 6 add exactly record 7.
C5_MergeEqualsReference ==
    /\ op = "MergeCall" /\ outcome = "ok"
          => rt_data = RefMerge(existing_df, new_df)
    /\ \A v \in Paths :
          process_incremental_data(ChunkOf({5, 6, 7}, v),
                                   <<RowOf(5, "A"), RowOf(6, "A")>>, "ok").df
             = <<RowOf(5, "A"), RowOf(6, "A"), RowOf(7, v)>>

C5_Witness ==
    /\ op = "MergeCall" /\ outcome = "ok"
    /\ existing_df # <<>> /\ MaxOf(Ids(existing_df)) = 6
    /\ Len(new_df) = 3 /\ Ids(new_df) = {5, 6, 7}
    /\ Len(rt_data) = Len(existing_df) + 1
    /\ rt_data[Len(rt_data)].id = 7

\* C6: a chunk whose ids are all in the Dataset leaves the Dataset as it is,
\* and merging any chunk twice gives what merging it once gives.
C6_MergeIdempotent ==
    \A S \in SUBSET BatchIds, v \in Paths :
        LET chunk == ChunkOf(S, v)
            once == process_incremental_data(chunk, rt_data, "ok").df
        IN  /\ S \subseteq Ids(rt_data) => once = rt_data
            /\ process_incremental_data(chunk, once, "ok").df = once

C6_Witness ==
    /\ op = "MergeCall" /\ outcome = "ok"
    /\ new_df # <<>> /\ Ids(new_df) \subseteq Ids(existing_df)
    /\ rt_data = existing_df
    /\ \E i \in DOMAIN new_df : \A j \in DOMAIN rt_data : rt_data[j] # new_df[i]

\* C1: once the streaming path has consumed the whole log chunk by chunk,
\* the ids of the Dataset are the ids batch process_file gives for the log.
C1_StreamingEqualsBatch ==
    op \in {"ChunkWrite", "ChunkPoll"} /\ last_position = Len(file["A"])
        => Ids(rt_data) = Ids(process_file(file["A"], "A", "ok").df)

InFile(p, id) == \E j \in DOMAIN file[p] : file[p][j].k = "m" /\ file[p][j].id = id

\* C3: with monitoring on and polls firing, every record appended to the
\* file is eventually in the Dataset, and no record is ever in it twice.
C3_EventuallyDeliveredOnce ==
    /\ \A id \in 1..MaxEntries :
          [](InFile("A", id) => <>(Occurrences(rt_data, RowOf(id, "A")) = 1))
    /\ [](\A id \in 1..MaxEntries : Count(rt_data, id) <= 1)

C3_Witness ==
    /\ op = "Rerun" /\ outcome = "ok"
    /\ Len(existing_df) = MaxEntries - 1
    /\ Len(new_df) = MaxEntries
    /\ rt_data = Extract(file["A"])
    /\ Len(rt_data) = MaxEntries

\* C11: a read of a file that does not exist, is empty or has no bytes
\* past the cursor, and a read that fails, return None, raise nothing and
\* leave the cursor and the Dataset as they were.
C11_SoftReadKeepsCursor ==
    [][op' = "ReadTick"
       /\ (\/ ~exists["A"]
           \/ Len(file["A"]) = 0
           \/ last_position >= Len(file["A"])
           \/ read_start' = NoRead)
       => /\ new_content' = None
          /\ ~raised'
          /\ last_position' = last_position
          /\ rt_data' = rt_data]_vars

C11_Witness ==
    /\ op = "ReadTick" /\ exists["A"] /\ read_start = NoRead
    /\ "read_new_data" \in st_errors
    /\ last_position > 0 /\ last_position < Len(file["A"])
    /\ rt_data # <<>>

\* C12: every call of process_file either returns a Dataset all of whose
\* records carry source_file = filename and reports nothing, or returns no
\* Dataset and reports a failure that names the file; it never raises.
C12_ProcessFileOutcomes ==
    \A i \in DOMAIN batch_results :
        LET r == batch_results[i]
        IN  /\ ~r.raised
            /\ \/ /\ r.ok
                  /\ \A j \in DOMAIN r.df : r.df[j].source_file = r.name
                  /\ r.st_error = NoPath
               \/ /\ ~r.ok
                  /\ r.df = <<>>
                  /\ r.st_error = r.name

C12_Witness ==
    /\ op = "BatchRun" /\ Len(batch_results) = 2
    /\ batch_results[1].ok /\ Len(batch_results[1].df) = MaxEntries
    /\ ~batch_results[2].ok

\* C13: a file of a batch whose extraction fails is not stored and is
\* reported by name, and every other file of the batch is still processed
\* and stored as it would be on its own.
C13_SiblingsStillProcessed ==
    [][op' = "BatchRun" =>
         \A i \in DOMAIN uploaded_files' :
            LET f == uploaded_files'[i]
            IN  IF f.name \in DOMAIN processed_data
                THEN /\ f.name \in DOMAIN processed_data'
                     /\ processed_data'[f.name] = processed_data[f.name]
                ELSE \E k \in DOMAIN batch_results' :
                        LET r == batch_results'[k]
                        IN  /\ r.name = f.name
                            /\ r.ok /\ r.df # <<>> =>
                                  /\ f.name \in DOMAIN processed_data'
                                  /\ processed_data'[f.name] =
                                        Tag(Extract(f.content), f.name)
                            /\ ~r.ok =>
                                  /\ f.name \notin DOMAIN processed_data'
                                  /\ r.st_error = f.name
                                  /\ f.name \in sidebar_errors']_vars

C13_Witness ==
    /\ op = "BatchRun" /\ Len(batch_results) = 2
    /\ ~batch_results[1].ok /\ batch_results[2].ok
    /\ batch_results[1].name \notin DOMAIN processed_data
    /\ batch_results[2].name \in DOMAIN processed_data
    /\ Len(processed_data[batch_results[2].name]) = MaxEntries

\* C14: the ids of the Dataset, read in insertion order, never decrease,
\* and a merge puts its new records after the records that were there.
C14_IdsNonDecreasing ==
    /\ \A i, j \in DOMAIN rt_data : i < j => rt_data[i].id <= rt_data[j].id
    /\ op = "MergeCall" =>
          /\ Len(existing_df) <= Len(rt_data)
          /\ SubSeq(rt_data, 1, Len(existing_df)) = existing_df
          /\ \A i \in DOMAIN existing_df, j \in DOMAIN rt_data :
                j > Len(existing_df) => existing_df[i].id <= rt_data[j].id

C14_Witness ==
    /\ op = "MergeCall" /\ outcome = "ok"
    /\ Len(existing_df) >= 2
    /\ Len(rt_data) > Len(existing_df)
    /\ Len(new_df) > Len(rt_data) - Len(existing_df)

\* C15: a streaming tick whose extraction fails (non-zero exit status,
\* timeout, empty output) emits an error report and keeps the Dataset.
C15_FailureReported ==
    op \in RunOps /\ outcome \in {"nonzero", "timeout", "empty"} =>
        /\ "process_incremental_data" \in st_errors
        /\ rt_data = existing_df

\* C16: a temporary file that a call has created does not exist any more
\* when the call has returned.
C16_TempFileReleased ==
    /\ tmp_created => ~tmp_exists
    /\ \A i \in DOMAIN batch_results :
          batch_results[i].tmp_created => ~batch_results[i].tmp_exists

\* C17: a poll tick without Reset leaves the Dataset it found as a prefix
\* of the Dataset it leaves, and the largest id does not decrease.
C17_AppendOnlyBetweenResets ==
    [][op' \in RunOps \ {"ResetData"} =>
          /\ Len(rt_data) <= Len(rt_data')
          /\ SubSeq(rt_data', 1, Len(rt_data)) = rt_data
          /\ rt_data # <<>> =>
                MaxOf(Ids(rt_data')) >= MaxOf(Ids(rt_data))]_vars

C17_Witness ==
    /\ op = "Rerun" /\ outcome = "ok"
    /\ existing_df # <<>>
    /\ Len(rt_data) > Len(existing_df)
    /\ Len(new_df) = Len(rt_data)

====
